---- MODULE Spec2Model ----
(***************************************************************************)
(* The upload-and-measure pipeline of upload-gb (the richest version of    *)
(* main.go, src/unnamed/part_002 lines 174-462).                           *)
(*                                                                         *)
(* Per request there are three goroutines: the gin handler, the            *)
(* performance monitor started at the top of the handler, and the          *)
(* benchmark log writer started after a successful copy.  Requests share   *)
(* the filesystem, benchmark.txt and benchmarkMutex.                       *)
(***************************************************************************)
EXTENDS Integers, Sequences, FiniteSets, TLC

\* ---------------------------------------------------------------- bounds
\* longest uploaded content, in bytes
MaxLen == 2
\* ticker ticks a monitor takes
MaxTicks == 2

\* ------------------------------------------------------------- constants
\* the requests in flight (one handler goroutine each)
Requests == {1, 2}
\* uint64 is modelled with this many bits (TLC's integers are 32 bits wide)
WordBits == 16
UintModulus == 2 ^ WordBits
\* runtime.NumCPU()
NumCPU == 2
\* goroutines of the process that belong to no request (main)
BaseGoroutines == 1

\* runtime.MemStats.Alloc when the server starts taking requests, and the
\* values it takes later: a later sample is below, at or above an earlier one
InitialAlloc == 2
MemValues == {1, 2, 3}

\* a path is the sequence of its components; "" is the empty sequence
EmptyPath == << >>
Dests == { EmptyPath, <<"d", "a">> }
\* what c.FormFile("file") finds: no usable field, or a file of n bytes
NoFile == -1
Files == {NoFile} \cup (0 .. MaxLen)
\* what time.Since(copyStartTime) measures, in clock units: the clock may not
\* have advanced during the copy
Durations == {0, 1}

VARIABLES
    \* handler goroutine
    hpc, destPath, upload, initialMemory, perfDone, written, copyDuration,
    memoryUsed, srcOpen, dstOpen, result, resp,
    \* history: the handler steps a request has executed, in order
    steps,
    \* the handler's variables the monitor goroutine assigns (line 301)
    maxMem, avgCPU,
    \* monitor goroutine: its position and monitorPerformance's locals
    mpc, mMaxMem, totalCPU, cpuSamples,
    \* history: the samples a monitor has taken, in order
    samples,
    \* log writer goroutine
    wpc, wres,
    \* shared between requests
    benchmarkMutex, benchLog, files, dirs,
    \* history: the requests whose destination was open in another request
    \* while they had it open themselves
    overlap,
    \* the heap in use (runtime.MemStats.Alloc); it is followed at the ticks
    alloc,
    \* the run's budget of ticker ticks (fixed at the start of a run)
    tickBudget

hvars == << hpc, destPath, upload, initialMemory, perfDone, written,
            copyDuration, memoryUsed, srcOpen, dstOpen, result, resp, steps >>
mvars == << maxMem, avgCPU, mpc, mMaxMem, totalCPU, cpuSamples, samples >>
wvars == << wpc, wres, benchmarkMutex, benchLog >>
fvars == << files, dirs, overlap >>
evars == << tickBudget >>
avars == << alloc >>
vars == << hvars, mvars, wvars, fvars, evars, avars >>

\* ------------------------------------------------------------- helpers
\* the float64 a / b of two non-negative integers: an exact quotient when
\* b # 0, and the IEEE 754 results +Inf (a > 0) and NaN (a = 0) when b = 0;
\* a float division does not panic
FloatDiv(a, b) ==
    IF b # 0 THEN [class |-> "finite", num |-> a, den |-> b]
    ELSE IF a > 0 THEN [class |-> "+Inf", num |-> 1, den |-> 0]
    ELSE [class |-> "NaN", num |-> 0, den |-> 0]
\* line 385: transferRate := float64(written) / copyDuration.Seconds()
TransferRateOf(w, d) == FloatDiv(w, d)

NoResult == [set |-> FALSE, FileSize |-> 0, Duration |-> 0,
             TransferRate |-> FloatDiv(0, 1), MemoryUsage |-> 0,
             CPUUsage |-> <<0, 1>>]
NoResp == [status |-> 0, error |-> "", size |-> 0, duration_ms |-> 0,
           transfer_rate |-> FloatDiv(0, 1), memory_used |-> 0,
           cpu_usage |-> <<0, 1>>]
\* a file that does not exist
Absent == << -1 >>

\* the bytes request r uploads when its file is n bytes long
Content(r, n) == [i \in 1 .. n |-> r]

\* filepath.Dir
Dir(p) == IF Len(p) = 0 THEN EmptyPath ELSE SubSeq(p, 1, Len(p) - 1)

\* the directories os.MkdirAll(d) makes sure exist: d and its ancestors
Ancestors(d) == { SubSeq(d, 1, k) : k \in 1 .. Len(d) }

\* one write(2) of byte b at offset off of a file holding f
WriteAt(f, off, b) ==
    IF off < Len(f)
        THEN [f EXCEPT ![off + 1] = b]
        ELSE f \o [i \in 1 .. (off - Len(f)) |-> 0] \o << b >>

\* runtime.NumGoroutine()
NumGoroutine ==
    BaseGoroutines
    + Cardinality({ r \in Requests : hpc[r] \notin {"idle", "done"} })
    + Cardinality({ r \in Requests : mpc[r] = "running" })
    + Cardinality({ r \in Requests :
                        wpc[r] \in {"waiting", "locked", "opened", "written"} })

\* maxMem - initialMemory on uint64
SubUint(a, b) == (a - b) % UintModulus

\* the float totalCPU / float64(cpuSamples), kept exact as <<num, den>>
AvgOf(total, n) == IF n > 0 THEN << total, n >> ELSE << 0, 1 >>

\* the sum of f over the requests in S
RECURSIVE SumOver(_, _)
SumOver(f, S) ==
    IF S = {} THEN 0
    ELSE LET r == CHOOSE x \in S : TRUE IN f[r] + SumOver(f, S \ {r})

TicksTaken == SumOver(cpuSamples, Requests)

\* The requests a run takes.  The state space is kept finite and small by
\* exploring concurrent requests in runs whose tickers never fire (a request
\* shorter than the 200 ms interval), and ticking monitors in runs of one
\* request.
Arrivals == IF tickBudget = 0 THEN Cardinality(Requests) ELSE 1

\* ---------------------------------------------------------------- Init
Init ==
    /\ hpc = [r \in Requests |-> "idle"]
    /\ destPath = [r \in Requests |-> EmptyPath]
    /\ upload = [r \in Requests |-> NoFile]
    /\ initialMemory = [r \in Requests |-> 0]
    /\ perfDone = [r \in Requests |-> "none"]
    /\ written = [r \in Requests |-> 0]
    /\ copyDuration = [r \in Requests |-> 0]
    /\ memoryUsed = [r \in Requests |-> 0]
    /\ srcOpen = [r \in Requests |-> FALSE]
    /\ dstOpen = [r \in Requests |-> FALSE]
    /\ result = [r \in Requests |-> NoResult]
    /\ resp = [r \in Requests |-> NoResp]
    /\ steps = [r \in Requests |-> << >>]
    /\ maxMem = [r \in Requests |-> 0]
    /\ avgCPU = [r \in Requests |-> <<0, 1>>]
    /\ mpc = [r \in Requests |-> "none"]
    /\ mMaxMem = [r \in Requests |-> 0]
    /\ totalCPU = [r \in Requests |-> 0]
    /\ cpuSamples = [r \in Requests |-> 0]
    /\ samples = [r \in Requests |-> << >>]
    /\ wpc = [r \in Requests |-> "none"]
    /\ wres = [r \in Requests |-> "none"]
    /\ benchmarkMutex = 0
    /\ benchLog = << >>
    /\ files = [d \in Dests \ {EmptyPath} |-> Absent]
    /\ dirs = {EmptyPath}
    /\ overlap = {}
    /\ tickBudget \in {0, MaxTicks}
    /\ alloc = InitialAlloc

\* ------------------------------------------------------------- handler
\* the handler of r executes the step called name
Did(r, name) == steps' = [steps EXCEPT ![r] = Append(@, name)]

\* faulty variant of ErrorReturn: an error branch that returns without close(perfDone)
ErrorReturn_NoClose(r, status, msg) ==
    /\ resp' = [resp EXCEPT ![r] = [NoResp EXCEPT !.status = status,
                                                  !.error = msg]]
    /\ perfDone' = perfDone
    /\ srcOpen' = [srcOpen EXCEPT ![r] = FALSE]
    /\ dstOpen' = [dstOpen EXCEPT ![r] = FALSE]
    /\ hpc' = [hpc EXCEPT ![r] = "done"]

\* An error branch: c.JSON(status, {"error": ...}); close(perfDone); return.
\* The deferred Close calls registered so far run at the return.
ErrorReturn(r, status, msg) ==
    /\ resp' = [resp EXCEPT ![r] = [NoResp EXCEPT !.status = status,
                                                  !.error = msg]]
    /\ perfDone' = [perfDone EXCEPT ![r] =
                        IF @ = "open" THEN "closed" ELSE "panic"]
    /\ srcOpen' = [srcOpen EXCEPT ![r] = FALSE]
    /\ dstOpen' = [dstOpen EXCEPT ![r] = FALSE]
    /\ hpc' = [hpc EXCEPT ![r] = "done"]

\* lines 292-302: a request arrives; initialMemory is sampled and the monitor
\* goroutine is started.  Requests are numbered in their order of arrival.
Start(r) ==
    /\ hpc[r] = "idle"
    /\ Did(r, "start")
    /\ \A q \in Requests : q < r => hpc[q] # "idle"
    /\ r <= Arrivals
    /\ initialMemory' = [initialMemory EXCEPT ![r] = alloc]
    /\ perfDone' = [perfDone EXCEPT ![r] = "open"]
    /\ mpc' = [mpc EXCEPT ![r] = "running"]
    /\ hpc' = [hpc EXCEPT ![r] = "validate"]
    /\ UNCHANGED << destPath, upload, written, memoryUsed, srcOpen, dstOpen,
                    result, resp, maxMem, avgCPU, mMaxMem, totalCPU,
                    cpuSamples, samples, wvars, fvars, evars, avars, copyDuration >>

\* faulty variant of ValidateDest: the empty destination is not refused
ValidateDest_NoCheck(r) ==
    /\ hpc[r] = "validate"
    /\ Did(r, "dest")
    /\ \E d \in Dests :
        destPath' = [destPath EXCEPT ![r] = d]
    /\ hpc' = [hpc EXCEPT ![r] = "mkdir"]
    /\ UNCHANGED << upload, initialMemory, written, memoryUsed,
                    resp, perfDone, srcOpen, dstOpen,
                    result, mvars, wvars, fvars, evars, avars, copyDuration >>

\* lines 310-318: destPath := c.Query("dest"); dest == "" is refused
ValidateDest(r) ==
    /\ hpc[r] = "validate"
    /\ Did(r, "dest")
    /\ \E d \in Dests :
        /\ destPath' = [destPath EXCEPT ![r] = d]
        /\ IF d = EmptyPath
            THEN ErrorReturn(r, 400, "destination path is required")
            ELSE /\ hpc' = [hpc EXCEPT ![r] = "mkdir"]
                 /\ UNCHANGED << resp, perfDone, srcOpen, dstOpen >>
    /\ UNCHANGED << upload, initialMemory, written, memoryUsed,
                    result, mvars, wvars, fvars, evars, avars, copyDuration >>

\* faulty variant of EnsureDirOk: the directories are not created
EnsureDirOk_Skip(r) ==
    /\ hpc[r] = "mkdir"
    /\ Did(r, "mkdir")
    /\ hpc' = [hpc EXCEPT ![r] = "formfile"]
    /\ UNCHANGED << destPath, upload, initialMemory, perfDone, written,
                    memoryUsed, srcOpen, dstOpen, result, resp,
                    mvars, wvars, fvars, evars, avars, copyDuration >>

\* lines 321-327: os.MkdirAll(filepath.Dir(destPath)) succeeds
EnsureDirOk(r) ==
    /\ hpc[r] = "mkdir"
    /\ Did(r, "mkdir")
    /\ dirs' = dirs \cup Ancestors(Dir(destPath[r]))
    /\ hpc' = [hpc EXCEPT ![r] = "formfile"]
    /\ UNCHANGED << destPath, upload, initialMemory, perfDone, written,
                    memoryUsed, srcOpen, dstOpen, result, resp,
                    mvars, wvars, files, overlap, evars, avars, copyDuration >>

\* lines 321-327: os.MkdirAll fails (permissions, a file in the way)
EnsureDirFail(r) ==
    /\ hpc[r] = "mkdir"
    /\ Did(r, "mkdir")
    /\ ErrorReturn(r, 500, "failed to create directory")
    /\ UNCHANGED << destPath, upload, initialMemory, written, memoryUsed,
                    result, mvars, wvars, fvars, evars, avars, copyDuration >>

\* faulty variant of GetFormFile: a missing file field is answered 500
GetFormFile_Status500(r) ==
    /\ hpc[r] = "formfile"
    /\ Did(r, "formfile")
    /\ \E f \in Files :
        /\ upload' = [upload EXCEPT ![r] = f]
        /\ IF f = NoFile
            THEN ErrorReturn(r, 500, "failed to get file")
            ELSE /\ hpc' = [hpc EXCEPT ![r] = "open"]
                 /\ UNCHANGED << resp, perfDone, srcOpen, dstOpen >>
    /\ UNCHANGED << destPath, initialMemory, written, memoryUsed,
                    result, mvars, wvars, fvars, evars, avars, copyDuration >>

\* lines 330-344: fileHeader, err := c.FormFile("file")
GetFormFile(r) ==
    /\ hpc[r] = "formfile"
    /\ Did(r, "formfile")
    /\ \E f \in Files :
        /\ upload' = [upload EXCEPT ![r] = f]
        /\ IF f = NoFile
            THEN ErrorReturn(r, 400, "failed to get file")
            ELSE /\ hpc' = [hpc EXCEPT ![r] = "open"]
                 /\ UNCHANGED << resp, perfDone, srcOpen, dstOpen >>
    /\ UNCHANGED << destPath, initialMemory, written, memoryUsed,
                    result, mvars, wvars, fvars, evars, avars, copyDuration >>

\* lines 347-354: fileHeader.Open() succeeds; defer file.Close()
OpenSourceOk(r) ==
    /\ hpc[r] = "open"
    /\ Did(r, "open")
    /\ srcOpen' = [srcOpen EXCEPT ![r] = TRUE]
    /\ hpc' = [hpc EXCEPT ![r] = "create"]
    /\ UNCHANGED << destPath, upload, initialMemory, perfDone, written,
                    memoryUsed, dstOpen, result, resp, mvars, wvars, fvars, evars, avars, copyDuration >>

\* lines 347-353: fileHeader.Open() fails
OpenSourceFail(r) ==
    /\ hpc[r] = "open"
    /\ Did(r, "open")
    /\ ErrorReturn(r, 500, "failed to open file")
    /\ UNCHANGED << destPath, upload, initialMemory, written, memoryUsed,
                    result, mvars, wvars, fvars, evars, avars, copyDuration >>

\* the requests holding an open handle on the file at d
OpenOn(d) == { q \in Requests : dstOpen[q] /\ destPath[q] = d }

\* faulty variant of CreateDestOk: the destination is opened without O_TRUNC
CreateDestOk_NoTrunc(r) ==
    /\ hpc[r] = "create"
    /\ Did(r, "create")
    /\ files' = [files EXCEPT ![destPath[r]] = IF @ = Absent THEN << >> ELSE @]
    /\ overlap' = IF OpenOn(destPath[r]) \ {r} = {}
                    THEN overlap
                    ELSE overlap \cup OpenOn(destPath[r]) \cup {r}
    /\ dstOpen' = [dstOpen EXCEPT ![r] = TRUE]
    /\ written' = [written EXCEPT ![r] = 0]
    /\ hpc' = [hpc EXCEPT ![r] = "copy"]
    /\ UNCHANGED << destPath, upload, initialMemory, perfDone, memoryUsed,
                    srcOpen, result, resp, mvars, wvars, dirs, evars, avars, copyDuration >>

\* faulty variant of CreateDestOk: the destination is opened with O_EXCL, so
\* that an existing file is not overwritten
CreateDestOk_Exclusive(r) ==
    /\ hpc[r] = "create"
    /\ files[destPath[r]] = Absent
    /\ Did(r, "create")
    /\ files' = [files EXCEPT ![destPath[r]] = << >>]
    /\ overlap' = overlap
    /\ dstOpen' = [dstOpen EXCEPT ![r] = TRUE]
    /\ written' = [written EXCEPT ![r] = 0]
    /\ hpc' = [hpc EXCEPT ![r] = "copy"]
    /\ UNCHANGED << destPath, upload, initialMemory, perfDone, memoryUsed,
                    srcOpen, result, resp, mvars, wvars, dirs, evars, avars,
                    copyDuration >>

\* lines 357-367: os.Create(destPath) creates or truncates; defer dst.Close()
CreateDestOk(r) ==
    /\ hpc[r] = "create"
    /\ Did(r, "create")
    /\ files' = [files EXCEPT ![destPath[r]] = << >>]
    /\ overlap' = IF OpenOn(destPath[r]) \ {r} = {}
                    THEN overlap
                    ELSE overlap \cup OpenOn(destPath[r]) \cup {r}
    /\ dstOpen' = [dstOpen EXCEPT ![r] = TRUE]
    /\ written' = [written EXCEPT ![r] = 0]
    /\ hpc' = [hpc EXCEPT ![r] = "copy"]
    /\ UNCHANGED << destPath, upload, initialMemory, perfDone, memoryUsed,
                    srcOpen, result, resp, mvars, wvars, dirs, evars, avars, copyDuration >>

\* faulty variant of CreateDestFail: the branch returns without
\* close(perfDone)
CreateDestFail_Leak(r) ==
    /\ hpc[r] = "create"
    /\ Did(r, "create")
    /\ ErrorReturn_NoClose(r, 500, "failed to create destination file")
    /\ UNCHANGED << destPath, upload, initialMemory, written, memoryUsed,
                    result, mvars, wvars, fvars, evars, avars, copyDuration >>

\* lines 357-363: os.Create fails
CreateDestFail(r) ==
    /\ hpc[r] = "create"
    /\ Did(r, "create")
    /\ ErrorReturn(r, 500, "failed to create destination file")
    /\ UNCHANGED << destPath, upload, initialMemory, written, memoryUsed,
                    result, mvars, wvars, fvars, evars, avars, copyDuration >>

\* line 370, inside io.Copy: one byte read from the upload and written at the
\* destination handle's own offset
CopyByte(r) ==
    /\ hpc[r] = "copy"
    /\ written[r] < upload[r]
    /\ files' = [files EXCEPT ![destPath[r]] =
                    WriteAt(@, written[r], Content(r, upload[r])[written[r] + 1])]
    /\ written' = [written EXCEPT ![r] = @ + 1]
    /\ UNCHANGED << hpc, destPath, upload, initialMemory, perfDone,
                    memoryUsed, srcOpen, dstOpen, result, resp, steps,
                    mvars, wvars, dirs, overlap, evars, avars, copyDuration >>

\* lines 370-379: io.Copy reaches the end of the upload and returns
\* (written, nil); copyDuration := time.Since(copyStartTime)
CopyDone(r) ==
    /\ hpc[r] = "copy"
    /\ Did(r, "copy")
    /\ written[r] = upload[r]
    /\ \E d \in Durations : copyDuration' = [copyDuration EXCEPT ![r] = d]
    /\ hpc' = [hpc EXCEPT ![r] = "stop"]
    /\ UNCHANGED << destPath, upload, initialMemory, perfDone, written,
                    memoryUsed, srcOpen, dstOpen, result, resp,
                    mvars, wvars, fvars, evars, avars >>

\* faulty variant of CopyFail: the deferred Close calls do not run
CopyFail_NoClose(r) ==
    /\ hpc[r] = "copy"
    /\ Did(r, "copy")
    /\ resp' = [resp EXCEPT ![r] = [NoResp EXCEPT !.status = 500,
                                       !.error = "failed to save file"]]
    /\ perfDone' = [perfDone EXCEPT ![r] = "closed"]
    /\ hpc' = [hpc EXCEPT ![r] = "done"]
    /\ UNCHANGED << destPath, upload, initialMemory, written, memoryUsed,
                    srcOpen, dstOpen, result, mvars, wvars, fvars, evars,
                    avars, copyDuration >>

\* faulty variant of CopyFail: the partial destination file is removed
CopyFail_Cleanup(r) ==
    /\ hpc[r] = "copy"
    /\ Did(r, "copy")
    /\ ErrorReturn(r, 500, "failed to save file")
    /\ files' = [files EXCEPT ![destPath[r]] = Absent]
    /\ UNCHANGED << destPath, upload, initialMemory, written, memoryUsed,
                    result, mvars, wvars, dirs, overlap, evars, avars,
                    copyDuration >>

\* lines 370-376: a read or a write inside io.Copy fails
CopyFail(r) ==
    /\ hpc[r] = "copy"
    /\ Did(r, "copy")
    /\ ErrorReturn(r, 500, "failed to save file")
    /\ UNCHANGED << destPath, upload, initialMemory, written, memoryUsed,
                    result, mvars, wvars, fvars, evars, avars, copyDuration >>

\* faulty variant of StopMonitor: the results are read without close(perfDone) first
StopMonitor_Skip(r) ==
    /\ hpc[r] = "stop"
    /\ Did(r, "stop")
    /\ hpc' = [hpc EXCEPT ![r] = "readmem"]
    /\ UNCHANGED << destPath, upload, initialMemory, perfDone, written,
                    memoryUsed, srcOpen, dstOpen, result, resp, mvars, wvars,
                    fvars, evars, avars, copyDuration >>

\* line 382: close(perfDone), and nothing else
StopMonitor(r) ==
    /\ hpc[r] = "stop"
    /\ Did(r, "stop")
    /\ perfDone' = [perfDone EXCEPT ![r] =
                        IF @ = "open" THEN "closed" ELSE "panic"]
    /\ hpc' = [hpc EXCEPT ![r] = "readmem"]
    /\ UNCHANGED << destPath, upload, initialMemory, written, memoryUsed,
                    srcOpen, dstOpen, result, resp, mvars, wvars, fvars, evars, avars, copyDuration >>

\* line 388: memoryUsed := maxMem - initialMemory reads the variable the
\* monitor goroutine assigns, with no synchronisation
ReadMaxMem(r) ==
    /\ hpc[r] = "readmem"
    /\ Did(r, "readmem")
    /\ memoryUsed' = [memoryUsed EXCEPT ![r] =
                          SubUint(maxMem[r], initialMemory[r])]
    /\ hpc' = [hpc EXCEPT ![r] = "finalize"]
    /\ UNCHANGED << destPath, upload, initialMemory, perfDone, written,
                    srcOpen, dstOpen, result, resp, mvars, wvars, fvars,
                    evars, avars, copyDuration >>

\* faulty variant of Finalize: the go statement of line 418 is left out
Finalize_NoDispatch(r) ==
    /\ hpc[r] = "finalize"
    /\ Did(r, "finalize")
    /\ result' = [result EXCEPT ![r] =
                    [set |-> TRUE, FileSize |-> written[r],
                     Duration |-> copyDuration[r],
                     TransferRate |-> TransferRateOf(written[r], copyDuration[r]),
                     MemoryUsage |-> memoryUsed[r], CPUUsage |-> avgCPU[r]]]
    /\ hpc' = [hpc EXCEPT ![r] = "respond"]
    /\ UNCHANGED << destPath, upload, initialMemory, perfDone, written,
                    memoryUsed, srcOpen, dstOpen, resp, mvars, wvars, fvars, evars, avars, copyDuration >>

\* lines 390-445: the BenchmarkResult is built, reading avgCPU, which the
\* monitor goroutine assigns, with no synchronisation; the result is handed to
\* a new log writer goroutine.  Of the BenchmarkResult the model keeps FileSize,
\* Duration, TransferRate, MemoryUsage and CPUUsage.
Finalize(r) ==
    /\ hpc[r] = "finalize"
    /\ Did(r, "finalize")
    /\ result' = [result EXCEPT ![r] =
                    [set |-> TRUE, FileSize |-> written[r],
                     Duration |-> copyDuration[r],
                     TransferRate |-> TransferRateOf(written[r], copyDuration[r]),
                     MemoryUsage |-> memoryUsed[r], CPUUsage |-> avgCPU[r]]]
    /\ wpc' = [wpc EXCEPT ![r] = "waiting"]
    /\ hpc' = [hpc EXCEPT ![r] = "respond"]
    /\ UNCHANGED << destPath, upload, initialMemory, perfDone, written,
                    memoryUsed, srcOpen, dstOpen, resp, mvars, wres,
                    benchmarkMutex, benchLog, fvars, evars, avars, copyDuration >>

\* faulty variant of Respond: the handler answers only when its log writer
\* has finished
Respond_AfterLog(r) ==
    /\ hpc[r] = "respond"
    /\ wpc[r] = "done"
    /\ Did(r, "respond")
    /\ resp' = [resp EXCEPT ![r] =
                    [status |-> 200, error |-> "", size |-> written[r],
                     duration_ms |-> copyDuration[r],
                     transfer_rate |-> TransferRateOf(written[r], copyDuration[r]),
                     memory_used |-> memoryUsed[r], cpu_usage |-> avgCPU[r]]]
    /\ srcOpen' = [srcOpen EXCEPT ![r] = FALSE]
    /\ dstOpen' = [dstOpen EXCEPT ![r] = FALSE]
    /\ hpc' = [hpc EXCEPT ![r] = "done"]
    /\ UNCHANGED << destPath, upload, initialMemory, perfDone, written,
                    memoryUsed, result, mvars, wvars, fvars, evars, avars,
                    copyDuration >>

\* lines 447-456: c.JSON(200, ...) reads avgCPU again; the handler returns and
\* the deferred dst.Close() and file.Close() run
Respond(r) ==
    /\ hpc[r] = "respond"
    /\ Did(r, "respond")
    /\ resp' = [resp EXCEPT ![r] =
                    [status |-> 200, error |-> "", size |-> written[r],
                     duration_ms |-> copyDuration[r],
                     transfer_rate |-> TransferRateOf(written[r], copyDuration[r]),
                     memory_used |-> memoryUsed[r], cpu_usage |-> avgCPU[r]]]
    /\ srcOpen' = [srcOpen EXCEPT ![r] = FALSE]
    /\ dstOpen' = [dstOpen EXCEPT ![r] = FALSE]
    /\ hpc' = [hpc EXCEPT ![r] = "done"]
    /\ UNCHANGED << destPath, upload, initialMemory, perfDone, written,
                    memoryUsed, result, mvars, wvars, fvars, evars, avars, copyDuration >>

\* ------------------------------------------------------------- monitor
\* line 240: (numGoroutines / float64(startNumCPU)) * 100, in whole percent
CpuEstimate == (NumGoroutine * 100) \div NumCPU

\* faulty variant of MonitorTick: the last sample is kept, not the largest
MonitorTick_LastSample(r) ==
    /\ mpc[r] = "running"
    /\ TicksTaken < tickBudget
    /\ alloc' \in MemValues
    /\ mMaxMem' = [mMaxMem EXCEPT ![r] = alloc']
    /\ totalCPU' = [totalCPU EXCEPT ![r] = @ + CpuEstimate]
    /\ cpuSamples' = [cpuSamples EXCEPT ![r] = @ + 1]
    /\ samples' = [samples EXCEPT ![r] =
                      Append(@, [mem |-> alloc', cpu |-> CpuEstimate])]
    /\ UNCHANGED << hvars, maxMem, avgCPU, mpc, wvars, fvars, evars >>

\* lines 225-252: the select takes a tick; one memory and one CPU sample
MonitorTick(r) ==
    /\ mpc[r] = "running"
    /\ TicksTaken < tickBudget
    /\ alloc' \in MemValues
    /\ mMaxMem' = [mMaxMem EXCEPT ![r] = IF alloc' > @ THEN alloc' ELSE @]
    /\ totalCPU' = [totalCPU EXCEPT ![r] = @ + CpuEstimate]
    /\ cpuSamples' = [cpuSamples EXCEPT ![r] = @ + 1]
    /\ samples' = [samples EXCEPT ![r] =
                      Append(@, [mem |-> alloc', cpu |-> CpuEstimate])]
    /\ UNCHANGED << hvars, maxMem, avgCPU, mpc, wvars, fvars, evars >>

\* lines 254-258 and 301: the select takes the closed done channel;
\* monitorPerformance returns and the goroutine assigns maxMem and avgCPU
MonitorDone(r) ==
    /\ mpc[r] = "running"
    /\ perfDone[r] \in {"closed", "panic"}
    /\ maxMem' = [maxMem EXCEPT ![r] = mMaxMem[r]]
    /\ avgCPU' = [avgCPU EXCEPT ![r] = AvgOf(totalCPU[r], cpuSamples[r])]
    /\ mpc' = [mpc EXCEPT ![r] = "stopped"]
    /\ UNCHANGED << hvars, mMaxMem, totalCPU, cpuSamples, samples, wvars,
                    fvars, evars, avars >>

\* ---------------------------------------------------------- log writer
\* faulty variant of WriterLock: the writer goes on without waiting for the mutex
WriterLock_NoWait(r) ==
    /\ wpc[r] = "waiting"
    /\ benchmarkMutex' = r
    /\ wpc' = [wpc EXCEPT ![r] = "locked"]
    /\ UNCHANGED << hvars, mvars, wres, benchLog, fvars, evars, avars >>

\* line 419: benchmarkMutex.Lock()
WriterLock(r) ==
    /\ wpc[r] = "waiting"
    /\ benchmarkMutex = 0
    /\ benchmarkMutex' = r
    /\ wpc' = [wpc EXCEPT ![r] = "locked"]
    /\ UNCHANGED << hvars, mvars, wres, benchLog, fvars, evars, avars >>

\* lines 422-427: os.OpenFile("benchmark.txt", O_APPEND|O_CREATE|O_WRONLY)
WriterOpenOk(r) ==
    /\ wpc[r] = "locked"
    /\ wpc' = [wpc EXCEPT ![r] = "opened"]
    /\ UNCHANGED << hvars, mvars, wres, benchmarkMutex, benchLog, fvars, evars, avars >>

\* faulty variant of WriterOpenFail: the failure is reported in the HTTP response
WriterOpenFail_Surfaces(r) ==
    /\ wpc[r] = "locked"
    /\ wres' = [wres EXCEPT ![r] = "open_failed"]
    /\ benchmarkMutex' = IF benchmarkMutex = r THEN 0 ELSE benchmarkMutex
    /\ wpc' = [wpc EXCEPT ![r] = "done"]
    /\ resp' = [resp EXCEPT ![r] = [NoResp EXCEPT !.status = 500,
                                       !.error = "failed to open benchmark file"]]
    /\ UNCHANGED << hpc, destPath, upload, initialMemory, perfDone, written,
                    memoryUsed, srcOpen, dstOpen, result, steps,
                    mvars, benchLog, fvars, evars, avars, copyDuration >>

\* faulty variant of WriterOpenFail: the goroutine returns from the failed
\* open without Unlock
WriterOpenFail_KeepsLock(r) ==
    /\ wpc[r] = "locked"
    /\ wres' = [wres EXCEPT ![r] = "open_failed"]
    /\ wpc' = [wpc EXCEPT ![r] = "done"]
    /\ UNCHANGED << hvars, mvars, benchmarkMutex, benchLog, fvars, evars,
                    avars >>

\* lines 423-426 and 420: the open fails; the error is logged, the goroutine
\* returns and the deferred Unlock runs
WriterOpenFail(r) ==
    /\ wpc[r] = "locked"
    /\ wres' = [wres EXCEPT ![r] = "open_failed"]
    /\ benchmarkMutex' = IF benchmarkMutex = r THEN 0 ELSE benchmarkMutex
    /\ wpc' = [wpc EXCEPT ![r] = "done"]
    /\ UNCHANGED << hvars, mvars, benchLog, fvars, evars, avars >>

\* faulty variant of WriterWriteOk: the line is written twice
WriterWriteOk_Twice(r) ==
    /\ wpc[r] = "opened"
    /\ benchLog' = benchLog \o << [by |-> r, line |-> result[r]],
                                  [by |-> r, line |-> result[r]] >>
    /\ wres' = [wres EXCEPT ![r] = "written"]
    /\ wpc' = [wpc EXCEPT ![r] = "written"]
    /\ UNCHANGED << hvars, mvars, benchmarkMutex, fvars, evars, avars >>

\* lines 429-442: the line is formatted and written with one WriteString
WriterWriteOk(r) ==
    /\ wpc[r] = "opened"
    /\ benchLog' = Append(benchLog, [by |-> r, line |-> result[r]])
    /\ wres' = [wres EXCEPT ![r] = "written"]
    /\ wpc' = [wpc EXCEPT ![r] = "written"]
    /\ UNCHANGED << hvars, mvars, benchmarkMutex, fvars, evars, avars >>

\* lines 442-444: WriteString fails; the error is logged
WriterWriteFail(r) ==
    /\ wpc[r] = "opened"
    /\ wres' = [wres EXCEPT ![r] = "write_failed"]
    /\ wpc' = [wpc EXCEPT ![r] = "written"]
    /\ UNCHANGED << hvars, mvars, benchmarkMutex, benchLog, fvars, evars, avars >>

\* lines 427 and 420: the deferred f.Close() and benchmarkMutex.Unlock()
WriterClose(r) ==
    /\ wpc[r] = "written"
    /\ benchmarkMutex' = IF benchmarkMutex = r THEN 0 ELSE benchmarkMutex
    /\ wpc' = [wpc EXCEPT ![r] = "done"]
    /\ UNCHANGED << hvars, mvars, wres, benchLog, fvars, evars, avars >>

\* ------------------------------------------------------------------ Next
Next ==
    \E r \in Requests :
        \/ Start(r)
        \/ ValidateDest(r)
        \/ EnsureDirOk(r)
        \/ EnsureDirFail(r)
        \/ GetFormFile(r)
        \/ OpenSourceOk(r)
        \/ OpenSourceFail(r)
        \/ CreateDestOk(r)
        \/ CreateDestFail(r)
        \/ CopyByte(r)
        \/ CopyDone(r)
        \/ CopyFail(r)
        \/ StopMonitor(r)
        \/ ReadMaxMem(r)
        \/ Finalize(r)
        \/ Respond(r)
        \/ MonitorTick(r)
        \/ MonitorDone(r)
        \/ WriterLock(r)
        \/ WriterOpenOk(r)
        \/ WriterOpenFail(r)
        \/ WriterWriteOk(r)
        \/ WriterWriteFail(r)
        \/ WriterClose(r)

Spec == Init /\ [][Next]_vars

\* The Go scheduler runs every runnable goroutine: a log writer that can take
\* a step eventually takes one.  A writer blocked in Lock() is runnable
\* whenever the mutex is free.
HandlerStep(r) ==
    \/ Start(r) \/ ValidateDest(r) \/ EnsureDirOk(r) \/ EnsureDirFail(r)
    \/ GetFormFile(r) \/ OpenSourceOk(r) \/ OpenSourceFail(r)
    \/ CreateDestOk(r) \/ CreateDestFail(r) \/ CopyByte(r) \/ CopyDone(r)
    \/ CopyFail(r) \/ StopMonitor(r) \/ ReadMaxMem(r) \/ Finalize(r)
    \/ Respond(r)
WriterStep(r) ==
    \/ WriterLock(r) \/ WriterOpenOk(r) \/ WriterOpenFail(r)
    \/ WriterWriteOk(r) \/ WriterWriteFail(r) \/ WriterClose(r)
Fairness ==
    \A r \in Requests :
        /\ WF_vars(WriterStep(r))
FairSpec == Spec /\ Fairness

\* The select of line 224 takes the done case once the channel is closed: the
\* case stays ready, and between two ticks it is the only ready case.
MonitorFairness == \A r \in Requests : WF_vars(MonitorDone(r))
MonitorFairSpec == Spec /\ MonitorFairness

\* ================================================================ claims
\* ------------------------------------------------------------ vocabulary
\* the handler of r has returned
Returned(r) == hpc[r] = "done"
\* io.Copy returned without error in r (line 371 not taken)
CopySucceeded(r) ==
    \/ hpc[r] \in {"stop", "readmem", "finalize", "respond"}
    \/ Returned(r) /\ resp[r].status = 200
\* the go statement of line 418 has been executed for r
Dispatched(r) == wpc[r] # "none"
\* the writer of r is between Lock() and Unlock()
InCritical(r) == wpc[r] \in {"locked", "opened", "written"}
\* the lines of benchmark.txt written for r
LinesBy(r) == { i \in DOMAIN benchLog : benchLog[i].by = r }

\* C1 (as claimed): the handler reads maxMem and avgCPU (to compute
\* memoryUsed, the BenchmarkResult and the response) only once the monitor
\* goroutine has stopped and delivered its return values.
C1_ReadsAfterMonitorResult ==
    [][\A r \in Requests :
          (hpc[r] \in {"readmem", "finalize", "respond"} /\ hpc'[r] # hpc[r])
              => mpc[r] = "stopped"]_vars

\* C2: at most one log writer is inside its open-write-close sequence at any
\* time; a writer holds benchmarkMutex from before it opens benchmark.txt
\* until after it has written and closed; the log is a sequence of whole
\* lines, each the line of one writer and no writer's line twice.
C2_LogWritesExclusive ==
    /\ Cardinality({ r \in Requests : InCritical(r) }) <= 1
    /\ \A r \in Requests : InCritical(r) <=> benchmarkMutex = r
    /\ \A i \in DOMAIN benchLog :
          /\ benchLog[i].line = result[benchLog[i].by]
          /\ result[benchLog[i].by].set
          /\ wres[benchLog[i].by] = "written"
    /\ \A r \in Requests : Cardinality(LinesBy(r)) <= 1

\* C2 witness: one writer has benchmark.txt open while another waits in Lock()
C2_Witness ==
    \E r, q \in Requests :
        r # q /\ wpc[r] = "opened" /\ wpc[q] = "waiting" /\ benchmarkMutex = r

\* C3 (as claimed): in every state the number of dispatched log writers equals
\* the number of requests whose copy returned without error.
C3_Original ==
    Cardinality({ r \in Requests : Dispatched(r) })
        = Cardinality({ r \in Requests : CopySucceeded(r) })

\* C3 (amended): a log writer and a BenchmarkResult exist for r exactly when
\* the handler of r has executed its go statement on the success path, that is
\* when it is about to respond 200 or has responded 200; a request that ended
\* in an error response has neither; so the dispatched writers never outnumber
\* the successful copies and differ from them only by the handlers between
\* the return of io.Copy and the go statement.
C3_OneResultPerSuccess ==
    /\ \A r \in Requests :
          /\ Dispatched(r) <=> result[r].set
          /\ Dispatched(r) <=>
                (hpc[r] = "respond" \/ (Returned(r) /\ resp[r].status = 200))
          /\ (Returned(r) /\ resp[r].status # 200) => ~Dispatched(r)
    /\ { r \in Requests : CopySucceeded(r) /\ ~Dispatched(r) }
          = { r \in Requests : hpc[r] \in {"stop", "readmem", "finalize"} }

\* C3 witness: one upload succeeded and has its writer, another failed in the
\* copy and has none
C3_Witness ==
    \E r, q \in Requests :
        /\ Returned(r) /\ resp[r].status = 200 /\ Dispatched(r)
        /\ Returned(q) /\ resp[q].error = "failed to save file"
        /\ ~Dispatched(q)

\* C4 (as claimed): every request that responded 200 has exactly one line in
\* the log once its writer has run, and the log never holds more lines than
\* there are uploads that respond 200.  (Stated for the writer that has
\* terminated, so that a finite run decides it: a writer that is done writes
\* nothing more.)
C4_Original ==
    /\ \A r \in Requests :
          (resp[r].status = 200 /\ wpc[r] = "done")
              => Cardinality(LinesBy(r)) = 1
    /\ Len(benchLog) <= Cardinality({ r \in Requests : CopySucceeded(r) })

\* C4 (amended): the log holds at most one line per upload whose copy
\* succeeded and never more lines than such uploads; under fair scheduling
\* the writer of every request that responds 200 terminates, and it leaves
\* exactly one line if its open and its write succeeded and none if either
\* failed.
C4_OneLinePerLoggedSuccess ==
    /\ [](\A r \in Requests :
            /\ Cardinality(LinesBy(r)) <= 1
            /\ LinesBy(r) # {} => (CopySucceeded(r) /\ wres[r] = "written")
            /\ wpc[r] = "done" =>
                  (Cardinality(LinesBy(r)) = 1 <=> wres[r] = "written"))
    /\ [](Len(benchLog) <= Cardinality({ r \in Requests : CopySucceeded(r) }))
    /\ \A r \in Requests :
          (resp[r].status = 200) ~>
              (wpc[r] = "done" /\
                 (Cardinality(LinesBy(r)) = 1
                    \/ wres[r] \in {"open_failed", "write_failed"}))

\* C4 witness: two uploads responded 200; the line of one is in the log, the
\* writer of the other failed to open benchmark.txt
C4_Witness ==
    \E r, q \in Requests :
        /\ resp[r].status = 200 /\ wpc[r] = "done" /\ LinesBy(r) # {}
        /\ resp[q].status = 200 /\ wres[q] = "open_failed"

\* C5: on every path the handler closes perfDone exactly once before it
\* returns: the channel is open until the handler's close, closed when the
\* handler has returned, and never closed a second time.
C5_StopSignalOnce ==
    \A r \in Requests :
        /\ perfDone[r] # "panic"
        /\ Returned(r) => perfDone[r] = "closed"
        /\ hpc[r] \in {"validate", "mkdir", "formfile", "open", "create",
                       "copy", "stop"} => perfDone[r] = "open"
        /\ hpc[r] \in {"readmem", "finalize", "respond"}
              => perfDone[r] = "closed"
        /\ hpc[r] = "idle" => perfDone[r] = "none"

\* C5 witness: one request returned on the success path and one on the last
\* error branch, each with its channel closed
C5_Witness ==
    \E r, q \in Requests :
        /\ Returned(r) /\ resp[r].status = 200 /\ perfDone[r] = "closed"
        /\ Returned(q) /\ resp[q].error = "failed to save file"
        /\ perfDone[q] = "closed"

\* the fixed order of the handler's steps
StepOrder == << "start", "dest", "mkdir", "formfile", "open", "create",
                "copy", "stop", "readmem", "finalize", "respond" >>
\* the position of step name in the steps r has executed (0: not executed)
StepAt(r, name) ==
    IF \E i \in DOMAIN steps[r] : steps[r][i] = name
        THEN CHOOSE i \in DOMAIN steps[r] : steps[r][i] = name
        ELSE 0
\* step a was executed by r, and before step b
Precedes(r, a, b) == StepAt(r, a) > 0 /\ StepAt(r, a) < StepAt(r, b)

\* C6: within one request the monitor is started before the copy starts; the
\* stop signal is sent before the handler reads the monitor's result (into the
\* BenchmarkResult or the response); the log append is dispatched only after
\* the copy has completed without error.
C6_EventOrder ==
    \A r \in Requests :
        /\ hpc[r] \in {"copy", "stop", "readmem", "finalize", "respond"}
              => (mpc[r] # "none" /\ steps[r][1] = "start")
        /\ StepAt(r, "copy") > 0 => Precedes(r, "start", "copy")
        /\ (StepAt(r, "readmem") > 0 \/ result[r].set \/ resp[r].status = 200)
              => (perfDone[r] = "closed" /\ Precedes(r, "stop", "readmem"))
        /\ StepAt(r, "finalize") > 0 => Precedes(r, "readmem", "finalize")
        /\ Dispatched(r)
              => /\ Precedes(r, "copy", "finalize")
                 /\ upload[r] # NoFile /\ written[r] = upload[r]
                 /\ resp[r].status \in {0, 200}

\* C6 witness: a request has been through start, copy, stop and dispatch
C6_Witness ==
    \E r \in Requests :
        /\ Dispatched(r) /\ result[r].set /\ perfDone[r] = "closed"
        /\ upload[r] > 0 /\ steps[r] = SubSeq(StepOrder, 1, 10)

\* the 200 body the handler of r builds from its own variables
SuccessBody(r) ==
    [status |-> 200, error |-> "", size |-> written[r],
     duration_ms |-> copyDuration[r],
     transfer_rate |-> TransferRateOf(written[r], copyDuration[r]),
     memory_used |-> memoryUsed[r], cpu_usage |-> resp[r].cpu_usage]

\* C7: a failure to open or write benchmark.txt never changes the HTTP
\* response: an upload whose copy succeeded has responded 200 with the body
\* built from the handler's variables, whatever its writer has done so far,
\* and a writer that failed makes no second attempt and leaves no line.
C7_LogFailureIsolated ==
    \A r \in Requests :
        /\ (Returned(r) /\ Dispatched(r)) => resp[r] = SuccessBody(r)
        /\ resp[r].cpu_usage \in {<<0, 1>>, AvgOf(totalCPU[r], cpuSamples[r])}
        /\ wres[r] = "open_failed" => (wpc[r] = "done" /\ LinesBy(r) = {})
        /\ wres[r] = "write_failed"
              => (wpc[r] \in {"written", "done"} /\ LinesBy(r) = {})

\* C7 witness: responses 200 stand beside a failed open, a failed write and a
\* writer that has not yet run
C7_Witness ==
    \E r, q \in Requests :
        /\ resp[r].status = 200 /\ wres[r] = "open_failed"
        /\ resp[q].status = 200 /\ wpc[q] = "waiting"

\* the status the handler answers when the step called name is its last
StatusAfter(name) ==
    CASE name = "dest" -> 400
      [] name = "mkdir" -> 500
      [] name = "formfile" -> 400
      [] name = "open" -> 500
      [] name = "create" -> 500
      [] name = "copy" -> 500
      [] name = "respond" -> 200
      [] OTHER -> 0

\* C8: the steps a handler has executed are a prefix of the fixed order
\* start, dest check, directory creation, file-field lookup, source open,
\* destination create, copy, stop, read, finalize, respond; a handler has answered
\* exactly when it has returned; its status is the one of its last step (400
\* for dest and file field, 500 for directory, open, create and copy) and is
\* 200 only when every step was executed.
C8_StatusOfFirstFailure ==
    \A r \in Requests :
        /\ steps[r] = SubSeq(StepOrder, 1, Len(steps[r]))
        /\ Returned(r) <=> resp[r].status # 0
        /\ Returned(r) =>
              /\ resp[r].status = StatusAfter(steps[r][Len(steps[r])])
              /\ resp[r].status = 200 <=> steps[r] = StepOrder
              /\ resp[r].status = 200 <=> resp[r].error = ""
              /\ steps[r][Len(steps[r])] = "dest" <=> destPath[r] = EmptyPath
              /\ steps[r][Len(steps[r])] = "formfile" <=>
                    (destPath[r] # EmptyPath /\ upload[r] = NoFile
                       /\ StepAt(r, "formfile") > 0)

\* C8 witness: a request stopped at the source open with 500 while another
\* stopped at the file field with 400
C8_Witness ==
    \E r, q \in Requests :
        /\ Returned(r) /\ resp[r].status = 500
        /\ resp[r].error = "failed to open file"
        /\ Returned(q) /\ resp[q].status = 400
        /\ resp[q].error = "failed to get file"

\* C9: a request with an empty dest is answered 400 "destination path is
\* required" at the dest check and does nothing else: the step that refuses it
\* leaves the directories, the files and the benchmark log as they were and
\* dispatches no writer, and no later step of that request exists.
C9_EmptyDestRefused ==
    /\ [](\A r \in Requests :
            (hpc[r] \notin {"idle", "validate"} /\ destPath[r] = EmptyPath)
                => /\ Returned(r)
                   /\ resp[r] = [NoResp EXCEPT !.status = 400,
                                   !.error = "destination path is required"]
                   /\ steps[r] = << "start", "dest" >>
                   /\ ~Dispatched(r) /\ ~result[r].set
                   /\ ~srcOpen[r] /\ ~dstOpen[r] /\ LinesBy(r) = {})
    /\ [][\A r \in Requests :
            (hpc[r] = "validate" /\ hpc'[r] # "validate"
               /\ destPath'[r] = EmptyPath)
                => UNCHANGED << files, dirs, benchLog, wpc, benchmarkMutex >>]_vars

\* C9 witness: a request with an empty dest has been refused while another
\* request has a file on disk
C9_Witness ==
    \E r, q \in Requests :
        /\ Returned(r) /\ destPath[r] = EmptyPath /\ resp[r].status = 400
        /\ destPath[q] # EmptyPath /\ Len(files[destPath[q]]) = 2

\* C10: when a handler that had the destination to itself responds 200, the
\* size of the response and the FileSize of its BenchmarkResult are the number
\* of bytes io.Copy wrote, and the file at dest holds exactly the uploaded
\* bytes.
C10_SizeIsBytesCopied ==
    [][\A r \in Requests :
          (hpc[r] = "respond" /\ hpc'[r] = "done" /\ r \notin overlap)
              => /\ resp'[r].status = 200
                 /\ resp'[r].size = written[r]
                 /\ result[r].FileSize = written[r]
                 /\ files'[destPath[r]] = Content(r, upload[r])
                 /\ Len(files'[destPath[r]]) = resp'[r].size]_vars

\* C10 witness: two uploads to the same dest, one after the other, the second
\* shorter; both responded 200 and neither overlapped the other
C10_Witness ==
    \E r, q \in Requests :
        /\ r # q /\ overlap = {}
        /\ Returned(r) /\ resp[r].status = 200 /\ resp[r].size = 2
        /\ Returned(q) /\ resp[q].status = 200 /\ resp[q].size = 1
        /\ files[destPath[q]] = Content(q, 1)

\* C11: two uploads to the same dest, one after the other, both succeed: the
\* create step of a handler is possible whether or not a file exists at dest
\* (there is no existence check), it leaves the file empty, and when the
\* second handler responds the file holds exactly the second upload's bytes,
\* also when it is the shorter one; both handlers have dispatched their own
\* log writer.
C11_SequentialOverwrite ==
    /\ [](\A r \in Requests : hpc[r] = "create" => ENABLED CreateDestOk(r))
    /\ [][\A r \in Requests :
            (hpc[r] = "create" /\ hpc'[r] = "copy")
                => files'[destPath[r]] = << >>]_vars
    /\ [][\A r, q \in Requests :
            (/\ r # q /\ r \notin overlap
             /\ hpc[r] = "respond" /\ hpc'[r] = "done"
             /\ Returned(q) /\ resp[q].status = 200
             /\ destPath[q] = destPath[r])
                => /\ resp'[r].status = 200
                   /\ files'[destPath[r]] = Content(r, upload[r])
                   /\ Dispatched(r) /\ Dispatched(q)]_vars

\* C11 witness: a 2-byte upload and then a 1-byte upload to the same dest both
\* responded 200 and both have their log line; the file holds the one byte
C11_Witness ==
    \E r, q \in Requests :
        /\ r # q /\ overlap = {} /\ destPath[r] = destPath[q]
        /\ Returned(q) /\ resp[q].status = 200 /\ upload[q] = 2
        /\ Returned(r) /\ resp[r].status = 200 /\ upload[r] = 1
        /\ files[destPath[r]] = Content(r, 1)
        /\ LinesBy(r) # {} /\ LinesBy(q) # {}

\* C12 (as claimed): the transfer rate in the BenchmarkResult and in the 200
\* response is a finite number, also when copyDuration is zero.
C12_RateIsFinite ==
    \A r \in Requests :
        /\ result[r].set => result[r].TransferRate.class = "finite"
        /\ resp[r].status = 200 => resp[r].transfer_rate.class = "finite"

\* C13 (as claimed): the memoryUsed the handler computes is peak - initial
\* when the peak it read is at least initialMemory; otherwise it is the
\* negative difference or zero, never a wrapped unsigned value.
C13_MemoryUsedNotWrapped ==
    [][\A r \in Requests :
          (hpc[r] = "readmem" /\ hpc'[r] = "finalize")
              => IF maxMem[r] >= initialMemory[r]
                    THEN memoryUsed'[r] = maxMem[r] - initialMemory[r]
                    ELSE memoryUsed'[r] \in {0, maxMem[r] - initialMemory[r]}]_vars

\* C14: the handler never waits for its log writer: in every reachable state,
\* whatever the writers are doing and whoever holds benchmarkMutex, a handler
\* that has not returned has a step it can take.
C14_HandlerNeverWaitsForLog ==
    \A r \in Requests :
        /\ hpc[r] \notin {"idle", "done"} => ENABLED HandlerStep(r)
        /\ hpc[r] = "respond" => ENABLED Respond(r)

\* C14 witness: a handler has responded 200 while its writer still waits in
\* Lock() and the writer of another request holds the mutex
C14_Witness ==
    \E r, q \in Requests :
        /\ r # q /\ Returned(r) /\ resp[r].status = 200
        /\ wpc[r] = "waiting" /\ benchmarkMutex = q /\ LinesBy(r) = {}

\* C15: once a handler has returned, on the success path or on any error
\* branch, its monitor goroutine eventually stops (the select takes the done
\* case), and a stopped monitor stays stopped and takes no further sample.
\* A returned handler stays returned, so "eventually stops" is: there comes a
\* point after which every returned handler's monitor is stopped.
C15_NoSamplerLeak ==
    /\ <>[](\A r \in Requests : Returned(r) => mpc[r] = "stopped")
    /\ [][\A r \in Requests :
            /\ Returned(r) => hpc'[r] = "done"
            /\ mpc[r] = "stopped"
                => /\ mpc'[r] = "stopped"
                   /\ cpuSamples'[r] = cpuSamples[r]
                   /\ samples'[r] = samples[r]]_vars

\* C15 witness: a request refused at the dest check whose monitor had taken
\* samples and has stopped
C15_Witness ==
    \E r \in Requests :
        /\ Returned(r) /\ resp[r].status = 400 /\ destPath[r] = EmptyPath
        /\ mpc[r] = "stopped" /\ cpuSamples[r] > 0

\* the largest memory sample of a sequence of samples (0 if there is none)
MaxMemOf(sq) ==
    IF sq = << >> THEN 0
    ELSE LET M == { sq[i].mem : i \in DOMAIN sq }
         IN CHOOSE m \in M : \A n \in M : n <= m
\* the sum of the CPU estimates of a sequence of samples
RECURSIVE SumCpuOf(_)
SumCpuOf(sq) == IF sq = << >> THEN 0 ELSE sq[1].cpu + SumCpuOf(Tail(sq))

\* C16: a stopped monitor has returned the largest memory sample it took (0
\* without samples) and the sum of its CPU estimates over their number (0
\* without samples); while it runs its peak is the largest sample so far and
\* never decreases.
C16_MonitorResult ==
    /\ [](\A r \in Requests :
            /\ mpc[r] = "stopped"
                => /\ maxMem[r] = MaxMemOf(samples[r])
                   /\ avgCPU[r] = IF samples[r] = << >> THEN << 0, 1 >>
                                   ELSE << SumCpuOf(samples[r]), Len(samples[r]) >>
            /\ mMaxMem[r] = MaxMemOf(samples[r])
            /\ cpuSamples[r] = Len(samples[r])
            /\ totalCPU[r] = SumCpuOf(samples[r]))
    /\ [][\A r \in Requests : mMaxMem'[r] >= mMaxMem[r]]_vars

\* C16 witness: a monitor stopped after two samples, the second smaller than
\* the first
C16_Witness ==
    \E r \in Requests :
        /\ mpc[r] = "stopped" /\ Len(samples[r]) = 2
        /\ samples[r][2].mem < samples[r][1].mem
        /\ maxMem[r] = samples[r][1].mem

\* C17: a handler that has returned holds no open handle; the source handle
\* is open from the source open on, the destination handle from the create on.
C17_HandlesClosed ==
    \A r \in Requests :
        /\ Returned(r) => (~srcOpen[r] /\ ~dstOpen[r])
        /\ hpc[r] = "create" => (srcOpen[r] /\ ~dstOpen[r])
        /\ hpc[r] \in {"copy", "stop", "readmem", "finalize", "respond"}
              => (srcOpen[r] /\ dstOpen[r])
        /\ hpc[r] \in {"idle", "validate", "mkdir", "formfile", "open"}
              => (~srcOpen[r] /\ ~dstOpen[r])

\* C17 witness: one request returned from a failed copy and one from a failed
\* create, neither holding a handle
C17_Witness ==
    \E r, q \in Requests :
        /\ Returned(r) /\ resp[r].error = "failed to save file"
        /\ written[r] > 0 /\ ~srcOpen[r] /\ ~dstOpen[r]
        /\ Returned(q) /\ resp[q].error = "failed to create destination file"
        /\ ~srcOpen[q] /\ ~dstOpen[q]

\* C18: a handler whose copy fails answers 500, has closed perfDone and
\* dispatches no log writer; the failing step touches neither the files nor
\* the directories, so the destination stays on disk and (when no other
\* request had it open) holds exactly the bytes written before the error.
C18_CopyFailureLeavesPartialFile ==
    /\ [](\A r \in Requests :
            (Returned(r) /\ resp[r].error = "failed to save file")
                => /\ resp[r].status = 500
                   /\ perfDone[r] = "closed"
                   /\ ~Dispatched(r) /\ ~result[r].set /\ LinesBy(r) = {}
                   /\ files[destPath[r]] # Absent)
    /\ [][\A r \in Requests :
            (hpc[r] = "copy" /\ hpc'[r] = "done")
                => /\ UNCHANGED << files, dirs >>
                   /\ files'[destPath[r]] # Absent
                   /\ r \notin overlap
                        => files'[destPath[r]]
                             = SubSeq(Content(r, upload[r]), 1, written[r])]_vars

\* C18 witness: after a 2-byte upload succeeded, a second 2-byte upload to the
\* same dest failed after one byte; the file holds that one byte
C18_Witness ==
    \E r, q \in Requests :
        /\ r # q /\ overlap = {} /\ destPath[r] = destPath[q]
        /\ Returned(q) /\ resp[q].status = 200 /\ upload[q] = 2
        /\ Returned(r) /\ resp[r].error = "failed to save file"
        /\ upload[r] = 2 /\ written[r] = 1
        /\ files[destPath[r]] = << r >>

\* C19: a request with a dest and no usable file field is answered 400 at the
\* file-field lookup, after the directories of dest were created; it
\* dispatches no log writer, opens nothing, and none of its steps creates or
\* changes a file.
C19_MissingFileField ==
    /\ [](\A r \in Requests :
            (Returned(r) /\ resp[r].error = "failed to get file")
                => /\ resp[r].status = 400
                   /\ destPath[r] # EmptyPath /\ upload[r] = NoFile
                   /\ steps[r] = << "start", "dest", "mkdir", "formfile" >>
                   /\ Ancestors(Dir(destPath[r])) \subseteq dirs
                   /\ ~Dispatched(r) /\ ~result[r].set /\ LinesBy(r) = {}
                   /\ ~srcOpen[r] /\ ~dstOpen[r])
    /\ [][\A r \in Requests :
            /\ (hpc[r] \in {"idle", "validate", "mkdir", "formfile"}
                   /\ hpc'[r] # hpc[r])
                  => UNCHANGED << files, benchLog, wpc, benchmarkMutex >>
            /\ (hpc[r] \in {"idle", "validate", "formfile"}
                   /\ hpc'[r] # hpc[r])
                  => UNCHANGED dirs
            /\ (hpc[r] = "mkdir" /\ hpc'[r] = "formfile")
                  => dirs' = dirs \cup Ancestors(Dir(destPath[r]))]_vars

\* C19 witness: a request without a file field was answered 400; the
\* directory of its dest exists and no file does
C19_Witness ==
    \E r \in Requests :
        /\ Returned(r) /\ resp[r].error = "failed to get file"
        /\ Dir(destPath[r]) \in dirs /\ Dir(destPath[r]) # EmptyPath
        /\ \A d \in DOMAIN files : files[d] = Absent

\* C20 (as claimed): when two uploads to the same dest had it open at the same
\* time and both responded 200, the file at dest is the complete content of
\* one of the two, with the length that upload's response reports.
C20_ConcurrentSameDest ==
    \A r, q \in Requests :
        (/\ r # q /\ r \in overlap /\ q \in overlap
         /\ Returned(r) /\ resp[r].status = 200
         /\ Returned(q) /\ resp[q].status = 200
         /\ destPath[r] = destPath[q])
            => \E w \in {r, q} :
                  /\ files[destPath[w]] = Content(w, upload[w])
                  /\ Len(files[destPath[w]]) = resp[w].size

\* C21: a log writer releases benchmarkMutex on every path: the mutex is held
\* only by a writer between Lock() and Unlock(), and the step that ends a
\* writer (after a failed open as after the write, failed or not) frees it;
\* whenever a writer waits, some writer can take a step; a writer leaves
\* Lock() only as the holder of the mutex and terminates only from inside its
\* critical section; a dispatched writer stays dispatched and a terminated
\* one stays terminated, and under fair scheduling there comes a point after
\* which every writer is either not dispatched or terminated: every
\* dispatched writer has acquired the mutex and terminated.
C21_MutexAlwaysReleased ==
    /\ [](\A r \in Requests :
            /\ benchmarkMutex = r => InCritical(r)
            /\ wpc[r] = "done" => benchmarkMutex # r)
    /\ []((\E r \in Requests : wpc[r] = "waiting")
            => (\E q \in Requests : ENABLED WriterStep(q)))
    /\ [][\A r \in Requests :
            /\ (InCritical(r) /\ wpc'[r] = "done") => benchmarkMutex' = 0
            /\ (wpc[r] = "waiting" /\ wpc'[r] # "waiting")
                  => (wpc'[r] = "locked" /\ benchmarkMutex' = r)
            /\ (wpc[r] # "done" /\ wpc'[r] = "done") => InCritical(r)
            /\ wpc[r] = "done" => wpc'[r] = "done"
            /\ wpc[r] # "none" => wpc'[r] # "none"]_vars
    /\ <>[](\A r \in Requests : wpc[r] \in {"none", "done"})

\* C21 witness: one writer failed to open benchmark.txt, the other failed to
\* write; both have terminated and the mutex is free
C21_Witness ==
    \E r, q \in Requests :
        /\ wres[q] = "open_failed" /\ wpc[q] = "done"
        /\ wres[r] = "write_failed" /\ wpc[r] = "done"
        /\ benchmarkMutex = 0
====
